---------------------------- MODULE Spec2Model ----------------------------
(***************************************************************************)
(* The AdminPanel component of admin-grow100x (a client-side referral      *)
(* dashboard), as a state machine.                                         *)
(*                                                                         *)
(* The repository holds three copies of the component:                     *)
(*   "toggle" : src/src/app/page.tsx lines 26-348, whose view is selected  *)
(*              by the showLogin / showRegister flags;                     *)
(*   "single" : src/unnamed/part_000 and src/src/app/page.tsx lines        *)
(*              375-616 (the same logic; the second has an extra copy-link *)
(*              row), whose view is selected by `user`.                    *)
(* `variant` is fixed by Init and selects the copy the run is about.       *)
(*                                                                         *)
(* One step of the model is one JavaScript task on the UI event loop: a    *)
(* user event handler up to its first await, or the continuation of an     *)
(* async handler after the request it awaits has settled.  React state     *)
(* set in a task is rendered before the next user event is delivered.      *)
(***************************************************************************)
EXTENDS Integers, Sequences, FiniteSets, TLC

\* ------------------------------------------------------------------ bounds
\* Successful code generations followed between two page loads (the
\* server's referral code is a counter).
MaxGen == 2

\* Requests in flight at once.  The code's own guards keep them at two (the
\* bootstrap fetch and one handler); the cap only stops a run in which
\* those guards are broken.
MaxInFlight == 3

\* ------------------------------------------------------- JavaScript values
\* A JavaScript value as a record of one shape; `k` is its type tag.
Null == [k |-> "null", id |-> "", n |-> 0]

Num(n) == [k |-> "num", id |-> "", n |-> n]

\* A User object (interface User); only `id` decides control flow.
Obj(i) == [k |-> "obj", id |-> i, n |-> 0]

\* Identifiers the API hands out.
UserIds == {"u1", "u2"}

\* The `user` field of a response that reports success: a User, or null.
ResponseUsers == {Obj(i) : i \in UserIds} \cup {Null}

\* JavaScript truthiness (`if (!user)`, `if (savedUser)`).
Truthy(v) == v.k = "obj" \/ (v.k = "num" /\ v.n # 0)

\* Fault: the identifier is read with optional chaining (`userData?.id`),
\* which never throws.
Throws_never(v) == FALSE

\* Reading `.id` of null throws a TypeError.
Throws(v) == v.k = "null"

\* `${v.id}` inside the Bearer template literal: a number has no `id`, so
\* the header reads "Bearer undefined".
IdOf(v) == IF v.k = "obj" THEN v.id ELSE "undefined"

\* ------------------------------------------------------------ JSON texts
\* A JSON text is a sequence of tokens.
JSONstringify(v) ==
    IF v.k = "null" THEN <<"null">>
    ELSE IF v.k = "num" THEN (IF v.n = 0 THEN <<"0">> ELSE <<"5">>)
    ELSE <<"{", "id", ":", v.id, "}">>

\* JSON.parse: ok = FALSE stands for the SyntaxError it throws.
JSONparse(t) ==
    IF t = <<"null">> THEN [ok |-> TRUE, val |-> Null]
    ELSE IF t = <<"0">> THEN [ok |-> TRUE, val |-> Num(0)]
    ELSE IF t = <<"5">> THEN [ok |-> TRUE, val |-> Num(5)]
    ELSE IF Len(t) = 5 /\ t[1] = "{" /\ t[2] = "id" /\ t[3] = ":" /\ t[5] = "}"
         THEN [ok |-> TRUE, val |-> Obj(t[4])]
    ELSE [ok |-> FALSE, val |-> Null]

\* -------------------------------------------------------- local storage
\* The 'adminUser' entry: absent, or present with a text.
NoItem == [present |-> FALSE, text |-> <<>>]

Item(t) == [present |-> TRUE, text |-> t]

\* What a browser may hold under 'adminUser' when the page loads: nothing,
\* the empty string, text that is no JSON, JSON null, JSON numbers, and
\* serialized User objects.
Blobs ==
    {NoItem, Item(<<>>), Item(<<"{", "id">>), Item(<<"null">>),
     Item(<<"0">>), Item(<<"5">>)}
    \cup {Item(JSONstringify(Obj(i))) : i \in UserIds}

\* Fault: the object is stored without JSON.stringify, so the entry holds
\* String(u).
StoredSession_raw(u) == Item(<<"[object Object]">>)

\* localStorage.setItem('adminUser', JSON.stringify(u))
StoredSession(u) == Item(JSONstringify(u))

\* A well-formed serialized session object.
WellFormed(t) == JSONparse(t).ok /\ JSONparse(t).val.k = "obj"

\* ------------------------------------------------------------- messages
\* err.response?.data?.message of a rejected request: undefined (no
\* response, or a body without message), the empty string, or a text.
NoMsg == "<undefined>"

Messages == {NoMsg, "", "Email not allowed"}

\* `message || fallback`
OrFallback(m, fallback) == IF m = NoMsg \/ m = "" THEN fallback ELSE m

\* ------------------------------------------------------------ form data
Emails == {"", "a@x.io"}

Names == {"", "Ann"}

EmptyForm == [email |-> "", fullName |-> ""]

\* ------------------------------------------------------ referral summary
\* A ReferralData payload: the user it was computed for and the referral
\* code the server held when it computed it.  NoData is `null`.
NoData == [uid |-> "", code |-> -1]

Payload(uid, code) == [uid |-> uid, code |-> code]

VARIABLES
    variant,       \* which copy of the component runs
    mounted,       \* the mount effect has run since the page loaded
    storage,       \* localStorage 'adminUser'
    user,          \* useState<User | null>
    referralData,  \* useState<ReferralData | null>
    loading,       \* useState(false)
    error,         \* useState('')
    showLogin,     \* useState(true)   (toggle variant)
    showRegister,  \* useState(false)  (toggle variant)
    formData,      \* useState({email: '', fullName: ''})
    net,           \* the requests in flight, in the order of their dispatch
    srvCode,       \* the server's referral code (a generation counter)
    bootBlob,      \* history: the 'adminUser' entry the mount effect read
    bootFetches,   \* history: summary fetches the mount effect dispatched
    persisted,     \* history: the User a submission stored, no logout since
    newest,        \* history: the payload of the most recently dispatched
                   \*          summary fetch among those that succeeded
    ev             \* history: the task that produced this state

vars ==
    <<variant, mounted, storage, user, referralData, loading, error, showLogin,
      showRegister, formData, net, srvCode, bootBlob, bootFetches, persisted,
      newest, ev>>

Variants == {"toggle", "single"}

IsToggle == variant = "toggle"

\* The render gate: `if (showLogin || showRegister)` in the toggle variant,
\* `if (!user)` in the others.
View ==
    IF IsToggle
    THEN (IF showLogin \/ showRegister THEN "form" ELSE "dashboard")
    ELSE (IF ~Truthy(user) THEN "form" ELSE "dashboard")

\* -------------------------------------------------------------- requests
\* A request in flight.  `handler` is the async function awaiting it and
\* `closure` the `user` that function closed over.  The other fields are
\* history: `cause` is how the request settled whose continuation
\* dispatched this one ("none": dispatched by the handler's first part),
\* `fetches` the summary fetches the handler invocation has dispatched so
\* far, `storedAt` / `userAt` / `codeAt` the 'adminUser' entry, the `user`
\* state and the server's code at the moment of dispatch, `older` whether a
\* summary fetch dispatched after this one has already succeeded.
Request(ep, token, handler, closure) ==
    [ep |-> ep, token |-> token, handler |-> handler, closure |-> closure,
     cause |-> "none", fetches |-> 0, storedAt |-> storage, userAt |-> user,
     codeAt |-> srvCode, older |-> FALSE]

\* fetchReferralData(userId) up to its await: the GET to the summary
\* endpoint with `Authorization: Bearer ${userId}`, called by `handler`
\* when the entry is `stor` and the user state `usr`.
fetchReferralData(userId, handler, stor, usr) ==
    [Request("summary", userId, handler, Null) EXCEPT
        !.fetches = 1, !.storedAt = stor, !.userAt = usr]

\* net without its i-th request.
Remove(i) == SubSeq(net, 1, i - 1) \o SubSeq(net, i + 1, Len(net))

SubmitHandlers == {"handleLogin", "handleRegister", "handleSubmit"}

\* The task that produced a state: its kind, the handler it belongs to, the
\* value and message of the response it handled, the requests it
\* dispatched, whether a submission or generation handler returned in it,
\* how that handler's own request had settled and how many summary fetches
\* the handler had dispatched.
Event(type) ==
    [type |-> type, handler |-> "", val |-> Null, msg |-> NoMsg, out |-> <<>>,
     done |-> FALSE, cause |-> "none", fetches |-> 0]

\* The state of a freshly loaded page, before the mount effect: every
\* useState at its initial value, nothing dispatched.
Init ==
    /\ variant \in Variants
    /\ storage \in Blobs
    /\ mounted = FALSE
    /\ user = Null
    /\ referralData = NoData
    /\ loading = FALSE
    /\ error = ""
    /\ showLogin = TRUE
    /\ showRegister = FALSE
    /\ formData = EmptyForm
    /\ net = <<>>
    /\ srvCode = 0
    /\ bootBlob = NoItem
    /\ bootFetches = 0
    /\ persisted = Null
    /\ newest = NoData
    /\ ev = Event("load")

\* ------------------------------------------------------------ page load
\* The useEffect(..., []) of the component: the session bootstrap.
\* State set before `userData.id` throws stays set; the catch only removes
\* the entry.
MountEffect ==
    /\ ~mounted
    /\ mounted' = TRUE
    /\ bootBlob' = storage
    /\ IF storage.present /\ storage.text # <<>>
       THEN LET p == JSONparse(storage.text) IN
            IF ~p.ok
            THEN /\ storage' = NoItem
                 /\ bootFetches' = 0
                 /\ ev' = Event("mount")
                 /\ UNCHANGED <<user, showLogin, showRegister, net>>
            ELSE /\ user' = p.val
                 /\ IF IsToggle
                    THEN showLogin' = FALSE /\ showRegister' = FALSE
                    ELSE UNCHANGED <<showLogin, showRegister>>
                 /\ IF Throws(p.val)
                    THEN /\ storage' = NoItem
                         /\ bootFetches' = 0
                         /\ ev' = Event("mount")
                         /\ UNCHANGED net
                    ELSE LET f == fetchReferralData(IdOf(p.val), "useEffect",
                                                    storage, p.val) IN
                         /\ net' = Append(net, f)
                         /\ bootFetches' = 1
                         /\ ev' = [Event("mount") EXCEPT !.out = <<f>>]
                         /\ UNCHANGED storage
       ELSE /\ bootFetches' = 0
            /\ ev' = Event("mount")
            /\ UNCHANGED <<storage, user, showLogin, showRegister, net>>
    /\ UNCHANGED <<variant, referralData, loading, error, formData, srvCode,
                   persisted, newest>>

\* The page is closed or reloaded and loaded again: the JavaScript context
\* and every request it awaited are gone, local storage stays.  srvCode is
\* a relative counter and restarts with the page (nothing of the old page
\* that could hold a code survives).
Reload ==
    /\ mounted
    /\ mounted' = FALSE
    /\ user' = Null
    /\ referralData' = NoData
    /\ loading' = FALSE
    /\ error' = ""
    /\ showLogin' = TRUE
    /\ showRegister' = FALSE
    /\ formData' = EmptyForm
    /\ net' = <<>>
    /\ srvCode' = 0
    /\ bootBlob' = NoItem
    /\ bootFetches' = 0
    /\ newest' = NoData
    /\ ev' = Event("load")
    /\ UNCHANGED <<variant, storage, persisted>>

\* ----------------------------------------------------------------- form
\* onChange of the email input and of the fullName input (the latter is
\* rendered only in register mode in the toggle variant).
onChange ==
    /\ mounted
    /\ View = "form"
    /\ \/ \E e \in Emails : formData' = [formData EXCEPT !.email = e]
       \/ /\ IsToggle => showRegister
          /\ \E n \in Names : formData' = [formData EXCEPT !.fullName = n]
    /\ formData' # formData
    /\ ev' = Event("change")
    /\ UNCHANGED <<variant, mounted, storage, user, referralData, loading, error,
                   showLogin, showRegister, net, srvCode, bootBlob, bootFetches,
                   persisted, newest>>

\* The "Register here" / "Login here" buttons of the toggle variant.
ToggleMode ==
    /\ mounted
    /\ IsToggle
    /\ View = "form"
    /\ showRegister' = showLogin
    /\ showLogin' = ~showLogin
    /\ error' = ""
    /\ ev' = Event("toggle")
    /\ UNCHANGED <<variant, mounted, storage, user, referralData, loading,
                   formData, net, srvCode, bootBlob, bootFetches,
                   persisted, newest>>

\* The handler the form's onSubmit runs.
FormHandler ==
    IF IsToggle
    THEN (IF showLogin THEN "handleLogin" ELSE "handleRegister")
    ELSE "handleSubmit"

\* The endpoint each handler posts to.
PostEndpoint(h) == IF h = "handleLogin" THEN "login" ELSE "register"

\* The fallback of each handler's catch.
Fallback(h) ==
    IF h = "handleLogin" THEN "Login failed"
    ELSE IF h = "handleRegister" THEN "Registration failed"
    ELSE "Failed to access dashboard"

\* Fault: the submit button has no `disabled` attribute.
SubmitEnabled_always == TRUE

\* The submit button is enabled: disabled={loading}.
SubmitEnabled == ~loading

\* The `required` inputs that are rendered are filled in.
FormValid ==
    /\ formData.email # ""
    /\ (FormHandler # "handleLogin") => formData.fullName # ""

\* handleLogin / handleRegister / handleSubmit up to the await of the POST.
Submit ==
    /\ mounted
    /\ View = "form"
    /\ SubmitEnabled
    /\ FormValid
    /\ Len(net) < MaxInFlight
    /\ loading' = TRUE
    /\ error' = ""
    /\ LET r == Request(PostEndpoint(FormHandler), "", FormHandler, Null) IN
        /\ net' = Append(net, r)
        /\ ev' = [Event("submit") EXCEPT !.handler = FormHandler, !.out = <<r>>]
    /\ UNCHANGED <<variant, mounted, storage, user, referralData, showLogin,
                   showRegister, formData, srvCode, bootBlob, bootFetches,
                   persisted, newest>>

IsPost(r) == r.ep \in {"login", "register"}

\* Fault: the success branch fetches before it stores the session.
SubmitSuccess_fetchFirst(i, u) ==
    /\ user' = u
    /\ storage' = StoredSession(u)
    /\ IF IsToggle
       THEN showLogin' = FALSE /\ showRegister' = FALSE
       ELSE UNCHANGED <<showLogin, showRegister>>
    /\ IF Throws(u)
       THEN /\ error' = Fallback(net[i].handler)
            /\ loading' = FALSE
            /\ net' = Remove(i)
            /\ ev' = [Event("postOk") EXCEPT !.handler = net[i].handler, !.val = u,
                         !.done = TRUE, !.cause = "ok"]
            /\ UNCHANGED persisted
       ELSE LET f == [fetchReferralData(IdOf(u), net[i].handler, storage, user)
                        EXCEPT !.cause = "ok"] IN
            /\ net' = Append(Remove(i), f)
            /\ ev' = [Event("postOk") EXCEPT !.handler = net[i].handler, !.val = u,
                         !.out = <<f>>, !.cause = "ok"]
            /\ persisted' = u
            /\ UNCHANGED <<error, loading>>

\* The success branch of a submission, for response.data.user = u:
\* setUser, localStorage.setItem, (toggle: hide the form), then
\* `await fetchReferralData(u.id)`.  Reading `.id` of null throws into the
\* handler's own catch and finally, after the state was set.
SubmitSuccess(i, u) ==
    /\ user' = u
    /\ storage' = StoredSession(u)
    /\ IF IsToggle
       THEN showLogin' = FALSE /\ showRegister' = FALSE
       ELSE UNCHANGED <<showLogin, showRegister>>
    /\ IF Throws(u)
       THEN /\ error' = Fallback(net[i].handler)
            /\ loading' = FALSE
            /\ net' = Remove(i)
            /\ ev' = [Event("postOk") EXCEPT !.handler = net[i].handler, !.val = u,
                         !.done = TRUE, !.cause = "ok"]
            /\ UNCHANGED persisted
       ELSE LET f == [fetchReferralData(IdOf(u), net[i].handler, StoredSession(u), u)
                        EXCEPT !.cause = "ok"] IN
            /\ net' = Append(Remove(i), f)
            /\ ev' = [Event("postOk") EXCEPT !.handler = net[i].handler, !.val = u,
                         !.out = <<f>>, !.cause = "ok"]
            /\ persisted' = u
            /\ UNCHANGED <<error, loading>>

\* The response does not report success (its body may carry message m):
\* neither branch runs, only `finally { setLoading(false) }`.
SubmitNoSuccess(i, m) ==
    /\ loading' = FALSE
    /\ net' = Remove(i)
    /\ ev' = [Event("postNoSuccess") EXCEPT !.handler = net[i].handler, !.msg = m,
                 !.done = TRUE, !.cause = "nosuccess"]
    /\ UNCHANGED <<user, storage, showLogin, showRegister, error, persisted>>

\* The POST resolved (a 2xx response).
PostResolved ==
    /\ mounted
    /\ \E i \in DOMAIN net :
        /\ IsPost(net[i])
        /\ \/ \E u \in ResponseUsers : SubmitSuccess(i, u)
           \/ \E m \in Messages : SubmitNoSuccess(i, m)
    /\ UNCHANGED <<variant, mounted, referralData, formData, srvCode, bootBlob,
                   bootFetches, newest>>

\* catch (err) { setError(err.response?.data?.message || fallback) }
\* finally { setLoading(false) }
SubmitCatch(i, m) ==
    /\ error' = OrFallback(m, Fallback(net[i].handler))
    /\ loading' = FALSE
    /\ net' = Remove(i)
    /\ ev' = [Event("postRejected") EXCEPT !.handler = net[i].handler, !.msg = m,
                 !.done = TRUE, !.cause = "rejected"]
    /\ UNCHANGED <<user, storage, showLogin, showRegister, persisted>>

\* The POST rejected (a non-2xx response, or no response at all).
PostRejected ==
    /\ mounted
    /\ \E i \in DOMAIN net :
        /\ IsPost(net[i])
        /\ \E m \in Messages : SubmitCatch(i, m)
    /\ UNCHANGED <<variant, mounted, referralData, formData, srvCode, bootBlob,
                   bootFetches, newest>>

\* ------------------------------------------------------------- dashboard
\* The generate button is enabled: disabled={loading}.
GenerateEnabled == ~loading

\* generateReferralLink up to the await of the GET to the code endpoint;
\* `if (!user) return` leaves everything as it is.
generateReferralLink ==
    /\ mounted
    /\ View = "dashboard"
    /\ GenerateEnabled
    /\ Len(net) < MaxInFlight
    /\ srvCode < MaxGen
    /\ IF ~Truthy(user)
       THEN /\ ev' = [Event("generate") EXCEPT !.handler = "generateReferralLink"]
            /\ UNCHANGED <<loading, net>>
       ELSE LET r == Request("code", IdOf(user), "generateReferralLink", user) IN
            /\ loading' = TRUE
            /\ net' = Append(net, r)
            /\ ev' = [Event("generate") EXCEPT !.handler = "generateReferralLink",
                         !.out = <<r>>]
    /\ UNCHANGED <<variant, mounted, storage, user, referralData, error, showLogin,
                   showRegister, formData, srvCode, bootBlob, bootFetches,
                   persisted, newest>>

\* Fault: the continuation re-fetches the summary whatever the response
\* reports.
GenerateContinue_always(i, success) ==
    LET f == [fetchReferralData(IdOf(net[i].closure), "generateReferralLink",
                                storage, user)
                EXCEPT !.cause = IF success THEN "ok" ELSE "nosuccess",
                       !.codeAt = IF success THEN srvCode + 1 ELSE srvCode] IN
    /\ net' = Append(Remove(i), f)
    /\ srvCode' = IF success THEN srvCode + 1 ELSE srvCode
    /\ ev' = [Event(IF success THEN "codeOk" ELSE "codeNoSuccess") EXCEPT
                 !.handler = "generateReferralLink", !.out = <<f>>,
                 !.cause = IF success THEN "ok" ELSE "nosuccess"]
    /\ UNCHANGED loading

\* The continuation of generateReferralLink after a 2xx response: on
\* success (the server has replaced its code) `await
\* fetchReferralData(user.id)` with the `user` the handler closed over when
\* it was invoked; otherwise only `finally { setLoading(false) }`.
GenerateContinue(i, success) ==
    IF success
    THEN LET f == [fetchReferralData(IdOf(net[i].closure), "generateReferralLink",
                                     storage, user)
                     EXCEPT !.cause = "ok", !.codeAt = srvCode + 1] IN
         /\ net' = Append(Remove(i), f)
         /\ srvCode' = srvCode + 1
         /\ ev' = [Event("codeOk") EXCEPT !.handler = "generateReferralLink",
                      !.out = <<f>>, !.cause = "ok"]
         /\ UNCHANGED loading
    ELSE /\ net' = Remove(i)
         /\ loading' = FALSE
         /\ ev' = [Event("codeNoSuccess") EXCEPT !.handler = "generateReferralLink",
                      !.done = TRUE, !.cause = "nosuccess"]
         /\ UNCHANGED srvCode

\* The GET to the code endpoint resolved.
CodeResolved ==
    /\ mounted
    /\ \E i \in DOMAIN net :
        /\ net[i].ep = "code"
        /\ \E success \in BOOLEAN : GenerateContinue(i, success)
    /\ UNCHANGED <<variant, mounted, storage, user, referralData, error, showLogin,
                   showRegister, formData, bootBlob, bootFetches,
                   persisted, newest>>

\* The GET to the code endpoint rejected:
\* catch { setError('Failed to generate referral link') } finally { ... }
CodeRejected ==
    /\ mounted
    /\ \E i \in DOMAIN net :
        /\ net[i].ep = "code"
        /\ net' = Remove(i)
    /\ error' = "Failed to generate referral link"
    /\ loading' = FALSE
    /\ ev' = [Event("codeRejected") EXCEPT !.handler = "generateReferralLink",
                 !.done = TRUE, !.cause = "rejected"]
    /\ UNCHANGED <<variant, mounted, storage, user, referralData, showLogin,
                   showRegister, formData, srvCode, bootBlob, bootFetches,
                   persisted, newest>>

\* Fault: the handlers have no `finally`, so nothing resets loading after
\* the awaited fetch.
AfterFetch_noFinally(r, type) ==
    /\ UNCHANGED loading
    /\ ev' = [Event(type) EXCEPT !.handler = r.handler,
                 !.done = (r.handler # "useEffect"), !.cause = r.cause,
                 !.fetches = r.fetches]

\* After `await fetchReferralData(...)` the awaiting handler runs its
\* `finally { setLoading(false) }`; the mount effect does not await.
AfterFetch(r, type) ==
    /\ IF r.handler = "useEffect" THEN UNCHANGED loading ELSE loading' = FALSE
    /\ ev' = [Event(type) EXCEPT !.handler = r.handler,
                 !.done = (r.handler # "useEffect"), !.cause = r.cause,
                 !.fetches = r.fetches]

\* net without its i-th request, a summary fetch that has just succeeded:
\* the summary fetches dispatched before it are now older than a success.
RemoveSucceeded(i) ==
    [k \in 1 .. Len(net) - 1 |->
        IF k < i
        THEN [net[k] EXCEPT !.older = @ \/ net[k].ep = "summary"]
        ELSE net[k + 1]]

\* fetchReferralData after the GET resolved: setReferralData on success.
\* The server computed the payload at some moment since the dispatch.
SummaryResolved ==
    /\ mounted
    /\ \E i \in DOMAIN net :
        /\ net[i].ep = "summary"
        /\ \/ /\ \E c \in net[i].codeAt .. srvCode :
                    /\ referralData' = Payload(net[i].token, c)
                    /\ newest' = IF net[i].older THEN newest
                                 ELSE Payload(net[i].token, c)
              /\ net' = RemoveSucceeded(i)
              /\ AfterFetch(net[i], "summaryOk")
           \/ /\ UNCHANGED <<referralData, newest>>
              /\ net' = Remove(i)
              /\ AfterFetch(net[i], "summaryNoSuccess")
    /\ UNCHANGED <<variant, mounted, storage, user, error, showLogin, showRegister,
                   formData, srvCode, bootBlob, bootFetches, persisted>>

\* Fault: fetchReferralData has no try/catch, so the rejection reaches the
\* catch of the handler that awaits it.
SummaryRejected_rethrow ==
    /\ mounted
    /\ \E i \in DOMAIN net :
        /\ net[i].ep = "summary"
        /\ net' = Remove(i)
        /\ AfterFetch(net[i], "summaryRejected")
        /\ error' = IF net[i].handler = "useEffect" THEN error
                    ELSE IF net[i].handler = "generateReferralLink"
                         THEN "Failed to generate referral link"
                    ELSE Fallback(net[i].handler)
    /\ UNCHANGED <<variant, mounted, storage, user, referralData, showLogin,
                   showRegister, formData, srvCode, bootBlob, bootFetches,
                   persisted, newest>>

\* fetchReferralData after the GET rejected: console.error only.
SummaryRejected ==
    /\ mounted
    /\ \E i \in DOMAIN net :
        /\ net[i].ep = "summary"
        /\ net' = Remove(i)
        /\ AfterFetch(net[i], "summaryRejected")
    /\ UNCHANGED <<variant, mounted, storage, user, referralData, error, showLogin,
                   showRegister, formData, srvCode, bootBlob, bootFetches,
                   persisted, newest>>

\* handleLogout: the Logout button of the dashboard.
handleLogout ==
    /\ mounted
    /\ View = "dashboard"
    /\ user' = Null
    /\ referralData' = NoData
    /\ IF IsToggle
       THEN showLogin' = TRUE /\ showRegister' = FALSE
       ELSE UNCHANGED <<showLogin, showRegister>>
    /\ formData' = EmptyForm
    /\ storage' = NoItem
    /\ persisted' = Null
    /\ ev' = Event("logout")
    /\ UNCHANGED <<variant, mounted, loading, error, net, srvCode, bootBlob,
                   bootFetches, newest>>

Next ==
    \/ MountEffect
    \/ Reload
    \/ onChange
    \/ ToggleMode
    \/ Submit
    \/ PostResolved
    \/ PostRejected
    \/ generateReferralLink
    \/ CodeResolved
    \/ CodeRejected
    \/ SummaryResolved
    \/ SummaryRejected
    \/ handleLogout

Spec == Init /\ [][Next]_vars

\* The same component in a browser whose 'adminUser' entry is absent or
\* holds a serialized User (what the component itself stores for a User).
InitOwnEntry ==
    /\ Init
    /\ storage \in {NoItem} \cup {StoredSession(Obj(i)) : i \in UserIds}

SpecOwnEntry == InitOwnEntry /\ [][Next]_vars

\* Every dispatched request eventually resolves or rejects, and the
\* continuation of the handler that awaits it then runs.
FairSpec ==
    /\ Spec
    /\ WF_vars(PostResolved \/ PostRejected)
    /\ WF_vars(CodeResolved \/ CodeRejected)
    /\ WF_vars(SummaryResolved \/ SummaryRejected)

\* ------------------------------------------------------------------ C1
SummaryEvents == {"summaryOk", "summaryNoSuccess", "summaryRejected"}

\* The handlers (submissions, generations) with a request in flight.
HandlersInFlight == {i \in DOMAIN net : net[i].handler # "useEffect"}

\* C1 (as stated): right after logout, whatever was in flight, user and
\* referralData are null, the form fields are empty, error is '' and
\* loading is false, the 'adminUser' entry is absent and the form is shown.
C1_LogoutClearsAll ==
    ev.type = "logout" =>
        /\ user = Null
        /\ referralData = NoData
        /\ formData = EmptyForm
        /\ error = ""
        /\ loading = FALSE
        /\ storage = NoItem
        /\ View = "form"

\* ------------------------------------------------------------------ C2
\* C2 (as stated): after the mount effect has read an 'adminUser' entry
\* that is not a well-formed serialized session object, the entry is gone,
\* user is null, no error is shown and the form is displayed.
C2_MalformedDiscarded ==
    (ev.type = "mount" /\ bootBlob.present /\ ~WellFormed(bootBlob.text)) =>
        /\ storage = NoItem
        /\ user = Null
        /\ error = ""
        /\ View = "form"

\* ------------------------------------------------------------------ C3
\* C3: after the task that handles a response reporting success with user
\* object u, user is u, the 'adminUser' entry is the serialization of u
\* (and parses back to u), and that task has dispatched exactly one
\* request, a summary fetch with u's identifier as bearer token, with the
\* session already stored; no other task dispatches a summary fetch for a
\* submission, and the handler returns having dispatched exactly one.
C3_SuccessPersistsAndFetchesOnce ==
    /\ (ev.type = "postOk" /\ ev.val.k = "obj") =>
        /\ user = ev.val
        /\ storage.present
        /\ storage.text = JSONstringify(ev.val)
        /\ JSONparse(storage.text) = [ok |-> TRUE, val |-> ev.val]
        /\ Len(ev.out) = 1
        /\ ev.out[1].ep = "summary"
        /\ ev.out[1].token = ev.val.id
        /\ ev.out[1].storedAt = storage
        /\ ev.out[1].userAt = ev.val
    /\ \A k \in DOMAIN ev.out :
        (ev.out[k].ep = "summary" /\ ev.out[k].handler \in SubmitHandlers)
            => (ev.type = "postOk" /\ ev.val.k = "obj")
    /\ (ev.done /\ ev.handler \in SubmitHandlers /\ ev.type \in SummaryEvents)
            => (ev.fetches = 1 /\ ev.cause = "ok")
    /\ (ev.done /\ ev.handler \in SubmitHandlers /\ ev.type \notin SummaryEvents)
            => ev.fetches = 0

\* C3 witness: a login or registration has just succeeded with a user
\* object and its summary fetch is in flight.
C3_Witness ==
    /\ ev.type = "postOk"
    /\ ev.val.k = "obj"
    /\ \E i \in DOMAIN net : net[i].ep = "summary" /\ net[i].handler \in SubmitHandlers

\* ------------------------------------------------------------------ C4
\* C4 (as stated): a submission that fails (the request is rejected, or the
\* response does not report success) leaves user and the 'adminUser' entry
\* as they were, dispatches nothing, and sets error to the server's message
\* or, when there is none, to the handler's fallback.
C4_FailedSubmissionKeepsSession ==
    [][ev'.type \in {"postRejected", "postNoSuccess"} =>
            /\ user' = user
            /\ storage' = storage
            /\ ev'.out = <<>>
            /\ error' = OrFallback(ev'.msg, Fallback(ev'.handler))]_vars

\* ------------------------------------------------------------------ C7
\* C7 (as stated): when a submission has finished without establishing a
\* session (rejected, or answered without success), error is non-empty and
\* the form with its error slot is displayed.
C7_FailureShowsError ==
    (ev.done /\ ev.type \in {"postRejected", "postNoSuccess"}) =>
        (error # "" /\ View = "form")

\* ------------------------------------------------------------------ C6
\* C6 (as stated): the form is displayed exactly when user is null.
C6_FormIffNoSession == (View = "form") <=> (user = Null)

\* ------------------------------------------------------------------ C5
GenerateDone == ev.done /\ ev.handler = "generateReferralLink"

\* C5 (as stated): every code generation has dispatched exactly one summary
\* re-fetch by the time its handler returns.
C5_ExactlyOneRefetch == GenerateDone => ev.fetches = 1

\* C5 (amended): a generation invoked with a session dispatches one request
\* to the code endpoint; when that request's response reports success the
\* handler dispatches exactly one summary re-fetch, in the task that
\* handles the response, and when the request is rejected or its response
\* does not report success the handler dispatches none.
C5_RefetchIffCodeSuccess ==
    /\ (ev.type = "generate" /\ Truthy(user)) =>
            (Len(ev.out) = 1 /\ ev.out[1].ep = "code" /\ ev.out[1].token = IdOf(user))
    /\ ev.type = "codeOk" =>
            (Len(ev.out) = 1 /\ ev.out[1].ep = "summary"
                /\ ev.out[1].handler = "generateReferralLink")
    /\ \A k \in DOMAIN ev.out :
        (ev.out[k].ep = "summary" /\ ev.out[k].handler = "generateReferralLink")
            => ev.type = "codeOk"
    /\ GenerateDone => ev.fetches = (IF ev.cause = "ok" THEN 1 ELSE 0)
    /\ GenerateDone => (ev.cause = "ok" <=> ev.type \in SummaryEvents)

\* C5 witness: a generation has returned after its one re-fetch settled.
C5_Witness == GenerateDone /\ ev.fetches = 1 /\ ev.type = "summaryOk"

\* ------------------------------------------------------------------ C8
\* The mount effect's fetches in flight.
BootInFlight == {i \in DOMAIN net : net[i].handler = "useEffect"}

\* C8 (as stated): once mounted, an entry that parsed has led to exactly one
\* summary fetch and to user being the parsed value, and no entry has led to
\* no request.
C8_FetchWheneverParsed ==
    mounted =>
        /\ (bootBlob.present /\ JSONparse(bootBlob.text).ok) => bootFetches = 1
        /\ ~bootBlob.present => bootFetches = 0

\* C8 (amended): the mount effect dispatches exactly one summary fetch,
\* with the parsed identifier as bearer token, when the entry parses to a
\* value other than null, and sets user to the parsed value; it dispatches
\* nothing when the entry is absent, empty, unparsable or parses to null;
\* no later task dispatches a request on the mount effect's behalf.
C8_BootFetchOneShot ==
    mounted =>
        LET p == JSONparse(bootBlob.text)
            fetched == bootBlob.present /\ p.ok /\ p.val # Null
        IN  /\ bootFetches = (IF fetched THEN 1 ELSE 0)
            /\ Cardinality(BootInFlight) <= bootFetches
            /\ ev.type = "mount" =>
                IF fetched
                THEN /\ user = p.val
                     /\ Len(ev.out) = 1
                     /\ ev.out[1].ep = "summary"
                     /\ ev.out[1].token = IdOf(p.val)
                ELSE ev.out = <<>>
            /\ (ev.type = "mount" /\ bootBlob.present /\ p.ok) => user = p.val
            /\ \A k \in DOMAIN ev.out :
                ev.out[k].handler = "useEffect" => ev.type = "mount"

\* C8 witness: the bootstrap fetch was rejected and nothing replaced it.
C8_Witness ==
    /\ ev.type = "summaryRejected"
    /\ ev.handler = "useEffect"
    /\ bootFetches = 1
    /\ net = <<>>

\* ------------------------------------------------------------------ C9
\* C9: while no logout follows a submission that stored user object u, the
\* 'adminUser' entry stays the serialization of u, and a mount effect that
\* runs then restores user to u and shows the dashboard; a present entry
\* is removed only by logout or by a mount effect that read something
\* other than a well-formed session, and an entry holding a session is
\* changed by logout alone.
C9_PersistReloadRoundTrip ==
    /\ [](persisted # Null => storage = Item(JSONstringify(persisted)))
    /\ []((ev.type = "mount" /\ persisted # Null) =>
            (user = persisted /\ View = "dashboard" /\ ~loading))
    /\ [][(storage.present /\ ~storage'.present) =>
            \/ ev'.type = "logout"
            \/ ev'.type = "mount" /\ ~WellFormed(storage.text)]_vars
    /\ [][(WellFormed(storage.text) /\ storage' # storage) => ev'.type = "logout"]_vars

\* C9 witness: the page was loaded again after a submission stored a user,
\* and the mount effect has restored it.
C9_Witness ==
    /\ ev.type = "mount"
    /\ persisted # Null
    /\ user = persisted
    /\ View = "dashboard"

\* ----------------------------------------------------------------- C10
\* C10: at most one submission or generation handler is in flight, and
\* while one is, loading is true and the submit and generate buttons are
\* disabled.
C10_LoadingSerialises ==
    /\ Cardinality(HandlersInFlight) <= 1
    /\ HandlersInFlight # {} => (loading /\ ~SubmitEnabled /\ ~GenerateEnabled)

\* C10 witness: a generation is still in flight after a logout and the
\* form is filled in again, so that only the loading flag holds back a
\* submission.
C10_Witness ==
    /\ View = "form"
    /\ FormValid
    /\ \E i \in DOMAIN net : net[i].ep = "code"

\* ----------------------------------------------------------------- C11
\* C11: the task in which a summary fetch is rejected, or answered without
\* success, leaves user, referralData, the error string and the 'adminUser'
\* entry as they were and dispatches nothing; fetchReferralData itself
\* leaves loading alone (the bootstrap fetch, which nobody awaits), and the
\* handler that awaited it returns normally through its `finally`
\* (loading false, error untouched), not through its catch.
C11_FailedFetchSilent ==
    [][ev'.type \in {"summaryRejected", "summaryNoSuccess"} =>
            /\ user' = user
            /\ referralData' = referralData
            /\ error' = error
            /\ storage' = storage
            /\ persisted' = persisted
            /\ ev'.out = <<>>
            /\ loading' = (IF ev'.handler = "useEffect" THEN loading ELSE FALSE)
            /\ ev'.handler # "useEffect" => (ev'.done /\ ev'.cause = "ok")]_vars

\* C11 witness: the summary fetch of a submission was rejected; the session
\* the submission stored is still there and no error is shown.
C11_Witness ==
    /\ ev.type = "summaryRejected"
    /\ ev.handler \in SubmitHandlers
    /\ user.k = "obj"
    /\ storage = StoredSession(user)
    /\ error = ""

\* ----------------------------------------------------------------- C12
\* C12 (as stated): every request a task dispatches to the summary or the
\* code endpoint is dispatched while a session exists, and carries the
\* identifier of the user the session holds at that moment.
C12_BearerIsCurrentUser ==
    \A k \in DOMAIN ev.out :
        ev.out[k].ep \in {"summary", "code"} =>
            (ev.out[k].userAt # Null /\ ev.out[k].token = IdOf(ev.out[k].userAt))

\* ----------------------------------------------------------------- C13
\* C13 (as stated): whenever a summary is held, a session exists and the
\* summary was fetched with the current user's identifier.
C13_SummaryBelongsToSession ==
    referralData # NoData => (user # Null /\ referralData.uid = IdOf(user))

\* ----------------------------------------------------------------- C14
\* C14 (as stated): once the mount effect has run, the 'adminUser' entry is
\* present exactly when user is set, and then it is the serialization of
\* user.
C14_StorageMirrorsUser ==
    mounted =>
        /\ storage.present <=> user # Null
        /\ storage.present => storage.text = JSONstringify(user)

\* ----------------------------------------------------------------- C15
\* C15 (as stated): once no request is in flight, the summary held is the
\* payload of the most recently dispatched summary fetch among those that
\* succeeded.
C15_NewestSummaryShown ==
    (net = <<>> /\ referralData # NoData) => referralData = newest

\* ----------------------------------------------------------------- C16
\* C16: when every dispatched request eventually resolves or rejects,
\* loading = true always leads to loading = false, set by the end of the
\* handler that raised it (or by a reload of the page, which starts afresh).
C16_LoadingEventuallyFalse ==
    loading ~> (~loading /\ (ev.done \/ ev.type = "load"))

\* A submission whose awaited fetch settled after a logout has reset loading.
C16_Witness ==
    /\ ev.type \in SummaryEvents
    /\ ev.handler \in SubmitHandlers
    /\ ev.done
    /\ user = Null
    /\ storage = NoItem
    /\ ~loading

=============================================================================
